---- MODULE Spec2Model ----
(***************************************************************************)
(* kopimashin-rs: a memory-mapped source file is written again and again   *)
(* to /dev/null by config.thread_count worker threads; every completed     *)
(* pass bumps the process-wide atomic GLOBAL_METRICS, and the main thread  *)
(* samples that counter every three seconds to print a throughput line.    *)
(*                                                                         *)
(* Byte counts are the program's real numbers (BATCH_SIZE is 1 MiB); a     *)
(* slice of the mapping is an (offset, length) pair, so no byte array is   *)
(* ever built.                                                             *)
(***************************************************************************)
EXTENDS Integers, Sequences, FiniteSets, TLC

\* ------------------------------------------------------------------ bounds
\* Workers the platform may report (the shipped detection always says 10).
MaxThreads == 2
\* write passes the workers perform between them before the model stops
\* following them
MaxPasses == 3
\* the largest source file is MaxChunks whole batches plus one byte
MaxChunks == 2
\* the monitor is followed until its clock reading passes MaxTime seconds
MaxTime == 6
\* view lengths and chunk sizes of the stand-alone chunking specification
MaxLen == 12
MaxChunkSize == 5
\* elapsed whole seconds of the stand-alone monitor arithmetic
MaxElapsed == 4

\* ------------------------------------------------------- program constants
KiB == 1024
BATCH_SIZE == 1024 * 1024
SleepSecs == 3
None == -1

Workers == 0 .. (MaxThreads - 1)

RECURSIVE SumOver(_, _)
SumOver(f, S) ==
    IF S = {} THEN 0
    ELSE LET x == CHOOSE y \in S : TRUE IN f[x] + SumOver(f, S \ {x})

Min(a, b) == IF a <= b THEN a ELSE b

\* Option::unwrap_or
unwrap_or(opt, dflt) == IF opt = None THEN dflt ELSE opt

\* ------------------------------------------------------ hardware detection
\* detect_apple_silicon_specs: Some((L1, L2, P-cores)) on aarch64 macOS,
\* None elsewhere.  p.apple is the cfg the build was compiled under.
detect_apple_silicon_specs(p) ==
    IF p.apple THEN [some |-> TRUE, l1 |-> 128 * KiB, l2 |-> 12 * KiB * KiB, p_cores |-> p.p_cores]
               ELSE [some |-> FALSE, l1 |-> None, l2 |-> None, p_cores |-> p.p_cores]

\* detect_optimal_thread_count: the P-core count, or the fixed fallback.
\* Both branches are the literal 10 in the source; the model lets the
\* platform say 0 .. MaxThreads instead so that the runs stay small.
detect_optimal_thread_count(p) == detect_apple_silicon_specs(p).p_cores

\* Ord::clamp as used at line 59: it asserts min <= max and panics
\* otherwise.  A panic is the value Panic.
Panic == -2
clamp(x, lo, hi) ==
    IF lo > hi THEN Panic
    ELSE IF x < lo THEN lo
    ELSE IF x > hi THEN hi
    ELSE x

\* detect_optimal_chunk_size
detect_optimal_chunk_size(p) ==
    LET specs == detect_apple_silicon_specs(p)
        l1_opt == IF specs.some THEN specs.l1 ELSE p.l1
        l2_opt == IF specs.some THEN specs.l2 ELSE p.l2
        l1_data_size == unwrap_or(l1_opt, 32 * KiB)
        l2_size == unwrap_or(l2_opt, 512 * KiB)
        min_chunk == l1_data_size
        max_chunk == l2_size \div 2
        target_chunk == 128 * KiB
    IN  clamp(target_chunk, min_chunk, max_chunk)

\* ------------------------------------------------------------ slice chunks
\* <[T]>::chunks(c) over a view of n bytes that starts at offset `off`:
\* each item is the next min(c, remaining) bytes.
RECURSIVE ChunksFrom(_, _, _)
ChunksFrom(off, n, c) ==
    IF off >= n THEN << >>
    ELSE LET len == Min(c, n - off)
         IN  << [off |-> off, len |-> len] >> \o ChunksFrom(off + len, n, c)

chunks_exact(n, c) == ChunksFrom(0, n - (n % c), c)
chunks(n, c) == ChunksFrom(0, n, c)

\* ------------------------------------------------------------ f64 values
\* TLC's integers are 32 bits wide, so an f64 is kept as the exact value
\* (n / d) * 2^e with n and d odd and coprime (zero is 0/1 * 2^0).  d = 0
\* marks the non-finite result of a division by zero.  Rounding to 53 bits
\* is not modelled: every quotient is the exact rational.
RECURSIVE Gcd(_, _)
Gcd(a, b) == IF b = 0 THEN a ELSE Gcd(b, a % b)

RECURSIVE Twos(_)
Twos(x) == IF x = 0 \/ x % 2 = 1 THEN 0 ELSE 1 + Twos(x \div 2)

RECURSIVE Pow2(_)
Pow2(k) == IF k = 0 THEN 1 ELSE 2 * Pow2(k - 1)

F64Zero == [n |-> 0, d |-> 1, e |-> 0]
F64NonFinite == [n |-> 1, d |-> 0, e |-> 0]

F64Norm(n, d, e) ==
    IF n = 0 THEN F64Zero
    ELSE LET g == Gcd(n, d)
             n1 == n \div g
             d1 == d \div g
             tn == Twos(n1)
             td == Twos(d1)
         IN  [n |-> n1 \div Pow2(tn), d |-> d1 \div Pow2(td), e |-> e + tn - td]

F64Finite(a) == a.d # 0

F64Mul(a, b) ==
    IF ~F64Finite(a) \/ ~F64Finite(b) THEN F64NonFinite
    ELSE F64Norm(a.n * b.n, a.d * b.d, a.e + b.e)

\* x / 0.0 is an infinity or a NaN
F64Div(a, b) ==
    IF ~F64Finite(a) \/ ~F64Finite(b) \/ b.n = 0 THEN F64NonFinite
    ELSE F64Norm(a.n * b.d, a.d * b.n, a.e - b.e)

\* `x as f64` for an integer 0 <= x < 2^31
AsF64(x) == F64Norm(x, 1, 0)

\* A usize too wide for TLC is written m * 2^e; `u as f64` is exact.
Usize(m, e) == [m |-> m, e |-> e]
UsizeAsF64(u) == F64Norm(u.m, 1, u.e)

\* Instant::duration_since saturates at zero when the later reading is
\* not later; as_secs_f64 turns the whole seconds into an f64.
duration_since(current_time, earlier) ==
    IF current_time >= earlier THEN current_time - earlier ELSE 0
as_secs_f64(secs) == AsF64(secs)

\* ---------------------------------------------------- monitor arithmetic
\* line 292: the guard of the report
elapsed_ge_zero(elapsed) == F64Finite(elapsed)
elapsed_gt_zero(elapsed) == F64Finite(elapsed) /\ elapsed.n > 0

\* line 293 (u64 subtraction; current_count >= last_count wherever it runs)
delta_count_of(current_count, last_count) == current_count - last_count

\* line 294
writes_per_sec_of(delta_count, elapsed) == F64Div(AsF64(delta_count), elapsed)

\* line 295
GiBf64 == F64Mul(F64Mul(AsF64(1024), AsF64(1024)), AsF64(1024))
gb_per_sec_mib(delta_count, file_size, elapsed) ==
    F64Div(F64Div(F64Mul(AsF64(delta_count), UsizeAsF64(file_size)),
                  F64Mul(AsF64(1024), AsF64(1024))),
           elapsed)
gb_per_sec_of(delta_count, file_size, elapsed) ==
    F64Div(F64Div(F64Mul(AsF64(delta_count), UsizeAsF64(file_size)), GiBf64),
           elapsed)

\* ------------------------------------------------------------------ state
VARIABLES
    platform,        \* what the build and the cache_size crate report
    file,            \* test_data.bin on disk: [exists, len]
    alive,           \* the process is running (FALSE after a panic/abort)
    mainPc,          \* position of main()
    config,          \* Config built by Config::default()
    data_source,     \* the Arc<MappedDataSource>: [mapped, data, size]
    spawned,         \* threads spawn_writers has spawned so far
    wpc,             \* wpc[w]: position of worker w's closure
    writer,          \* writer[w]: "none", "ok" or "invalid" (sink not opened)
    io_vectors,      \* io_vectors[w]: the writer's reusable IoSlice vector
    handed,          \* handed[w]: the write_vectored calls of w's last pass,
                     \*            each the slice list it was given
    last_write,      \* last_write[w]: outcome of the call of the pass in flight
    passes,          \* passes[w]: write passes that returned to w's loop
    GLOBAL_METRICS,  \* the AtomicU64
    last_count,      \* monitor locals
    last_time,
    report,          \* the status line on the console: << >> or <<line>>
    wake,            \* the monitor's last wake-up: its clock reading and elapsed
    prints,          \* status lines printed so far
    delta_sum,       \* sum of the delta_count of every line printed so far
    strong,          \* strong count of the Arc<MappedDataSource>
    prefault,        \* the pre-fault reads of from_file: [reads, last]
    call,            \* stand-alone evaluation of one function: its inputs
    result           \*   and << >> or <<its value>>

vars == << platform, file, alive, mainPc, config, data_source, spawned, wpc,
           writer, io_vectors, handed, last_write, passes, GLOBAL_METRICS,
           last_count, last_time, report, wake, prints, delta_sum, strong,
           prefault, call, result >>

mainVars == << mainPc, config, data_source, spawned, strong, prefault >>
workerVars == << wpc, writer, io_vectors, handed, last_write, passes >>
monitorVars == << last_count, last_time, report, wake, prints, delta_sum >>
envVars == << platform, file >>
callVars == << call, result >>

NoCall == [fn |-> "none", n |-> 0, c |-> 0, current_count |-> 0,
           last_count |-> 0, elapsed |-> 0, file_size |-> Usize(0, 0)]

\* ---------------------------------------------------------------- inputs
\* Source files: missing, empty, exactly one batch, and MaxChunks batches
\* plus a byte.
Sizes == {0, BATCH_SIZE, MaxChunks * BATCH_SIZE + 1}
Files == {[exists |-> FALSE, len |-> 0]} \cup {[exists |-> TRUE, len |-> n] : n \in Sizes}

\* Platforms: no cache information at all, or caches whose L1 is larger
\* than half the L2, each with 0 .. MaxThreads cores; and Apple Silicon,
\* followed with one core.
Caches == { <<None, None>>, <<64 * KiB, 64 * KiB>> }
Platforms ==
    { [apple |-> FALSE, l1 |-> k[1], l2 |-> k[2], p_cores |-> t] :
      k \in Caches, t \in 0 .. MaxThreads }
    \cup { [apple |-> TRUE, l1 |-> None, l2 |-> None, p_cores |-> 1] }

InitSystem ==
    /\ alive = TRUE
    /\ mainPc = "config"
    /\ config = [thread_count |-> 0, chunk_size |-> 0]
    /\ data_source = [mapped |-> FALSE, data |-> None, size |-> 0]
    /\ spawned = 0
    /\ wpc = [w \in Workers |-> "unspawned"]
    /\ writer = [w \in Workers |-> "none"]
    /\ io_vectors = [w \in Workers |-> << >>]
    /\ handed = [w \in Workers |-> << >>]
    /\ last_write = [w \in Workers |-> "none"]
    /\ passes = [w \in Workers |-> 0]
    /\ GLOBAL_METRICS = 0
    /\ last_count = 0
    /\ last_time = 0
    /\ report = << >>
    /\ wake = [current_time |-> None, elapsed |-> None]
    /\ prints = 0
    /\ delta_sum = 0
    /\ strong = 0
    /\ prefault = [reads |-> 0, last |-> None]

Init ==
    /\ platform \in Platforms
    /\ file \in Files
    /\ InitSystem
    /\ call = NoCall
    /\ result = << >>

\* ------------------------------------------------------------ main thread
\* Config::default() at line 239.  A panic on the main thread ends the
\* process.
MainConfigDefault ==
    /\ alive /\ mainPc = "config"
    /\ LET chunk == detect_optimal_chunk_size(platform)
       IN  IF chunk = Panic
           THEN /\ mainPc' = "panic_clamp"
                /\ alive' = FALSE
                /\ UNCHANGED config
           ELSE /\ config' = [thread_count |-> detect_optimal_thread_count(platform),
                              chunk_size |-> chunk]
                /\ mainPc' = "map"
                /\ UNCHANGED alive
    /\ UNCHANGED << data_source, spawned, strong, prefault, GLOBAL_METRICS >>
    /\ UNCHANGED << workerVars, monitorVars, envVars, callVars >>

\* sysconf(_SC_PAGESIZE) at line 95: 16 KiB pages on Apple Silicon, 4 KiB
\* elsewhere.
page_size_of(p) == IF p.apple THEN 16 * KiB ELSE 4 * KiB

\* The offsets the loop at lines 97-102 reads: i = 0, page_size, 2 * page_size,
\* ... for as long as the loop condition holds.
prefault_offsets_inclusive(size, page_size) ==
    { j * page_size : j \in { k \in 0 .. (size \div page_size) : k * page_size <= size } }
prefault_offsets(size, page_size) ==
    { j * page_size : j \in { k \in 0 .. (size \div page_size) : k * page_size < size } }

\* Arc::clone (lines 215, 276) and the drop of one owner: the mapping is
\* unmapped (Drop, lines 126-132) when the last owner goes.
arc_clone(count) == count + 1
arc_drop_unmaps(count) == [strong |-> count - 1, unmap |-> TRUE]
arc_drop(count) == [strong |-> count - 1, unmap |-> (count - 1 = 0)]

\* What the pre-fault loop has done when it ends: how many bytes it read and
\* the last offset it read (None when it read nothing).
prefault_pages_inclusive(size, page_size) ==
    LET offsets == prefault_offsets_inclusive(size, page_size)
    IN  [reads |-> Cardinality(offsets),
         last |-> IF offsets = {} THEN None
                  ELSE CHOOSE i \in offsets : \A j \in offsets : j <= i]
prefault_pages(size, page_size) ==
    LET offsets == prefault_offsets(size, page_size)
    IN  [reads |-> Cardinality(offsets),
         last |-> IF offsets = {} THEN None
                  ELSE CHOOSE i \in offsets : \A j \in offsets : j <= i]

\* MappedDataSource::from_file: the results the call can have.  File::open
\* fails on a missing file; mmap of zero bytes fails (EINVAL) and any mmap
\* may fail; otherwise the mapping is `len` bytes at the address the kernel
\* chose (one page-aligned address stands for it), every page touched.
from_file(f) ==
    IF ~f.exists THEN {[ok |-> FALSE, err |-> "open", data |-> None, size |-> 0]}
    ELSE IF f.len = 0 THEN {[ok |-> FALSE, err |-> "mmap", data |-> None, size |-> 0]}
    ELSE {[ok |-> TRUE, err |-> "", data |-> 64 * KiB, size |-> f.len],
          [ok |-> FALSE, err |-> "mmap", data |-> None, size |-> 0]}

\* lines 243-244: .expect() panics on Err.  On Ok the mapping has been
\* pre-faulted inside from_file, Arc::new holds it (strong count 1), and
\* the clone handed to spawn_writers at line 276 makes it 2.
MainMapSource_ignore_err ==
    /\ alive /\ mainPc = "map"
    /\ \E r \in from_file(file) :
          /\ data_source' = [mapped |-> r.ok, data |-> r.data, size |-> r.size]
          /\ prefault' = prefault_pages(r.size, page_size_of(platform))
          /\ strong' = arc_clone(1)
          /\ mainPc' = "spawn"
    /\ UNCHANGED << alive, config, spawned, GLOBAL_METRICS >>
    /\ UNCHANGED << workerVars, monitorVars, envVars, callVars >>

MainMapSource ==
    /\ alive /\ mainPc = "map"
    /\ \E r \in from_file(file) :
          IF r.ok
          THEN /\ data_source' = [mapped |-> TRUE, data |-> r.data, size |-> r.size]
               /\ prefault' = prefault_pages(r.size, page_size_of(platform))
               /\ strong' = arc_clone(1)
               /\ mainPc' = "spawn"
               /\ UNCHANGED alive
          ELSE /\ mainPc' = "panic_expect"
               /\ alive' = FALSE
               /\ UNCHANGED << data_source, prefault, strong >>
    /\ UNCHANGED << config, spawned, GLOBAL_METRICS >>
    /\ UNCHANGED << workerVars, monitorVars, envVars, callVars >>

\* (0..config.thread_count) at line 213
spawn_range_inclusive(thread_count) == 0 .. thread_count
spawn_range(thread_count) == 0 .. (thread_count - 1)

\* one thread::spawn of spawn_writers (lines 213-217); the closure owns
\* its own clone of the Arc
MainSpawn ==
    /\ alive /\ mainPc = "spawn"
    /\ spawned \in spawn_range(config.thread_count)
    /\ wpc' = [wpc EXCEPT ![spawned] = "new"]
    /\ spawned' = spawned + 1
    /\ strong' = arc_clone(strong)
    /\ UNCHANGED << alive, mainPc, config, data_source, prefault, GLOBAL_METRICS >>
    /\ UNCHANGED << writer, io_vectors, handed, last_write, passes >>
    /\ UNCHANGED << monitorVars, envVars, callVars >>

\* collect() returns the handles and spawn_writers drops its data_source
\* argument; main goes on to lines 279-283
MainSpawnReturn ==
    /\ alive /\ mainPc = "spawn"
    /\ spawned \notin spawn_range(config.thread_count)
    /\ mainPc' = "monitor"
    /\ LET d == arc_drop(strong)
       IN  /\ strong' = d.strong
           /\ data_source' = IF d.unmap THEN [data_source EXCEPT !.mapped = FALSE]
                                        ELSE data_source
    /\ last_count' = 0
    /\ last_time' = 0
    /\ UNCHANGED << alive, config, spawned, prefault, GLOBAL_METRICS >>
    /\ UNCHANGED << report, wake, prints, delta_sum >>
    /\ UNCHANGED << workerVars, envVars, callVars >>

\* ---------------------------------------------------------------- workers
\* increment_global_metrics: GLOBAL_METRICS.fetch_add(1, Relaxed), one
\* atomic read-modify-write.  The u64 wrap at 2^64 is beyond every run
\* followed here.
fetch_add_narrow(counter) == (counter + 1) % 2
fetch_sub(counter) == counter - 1
fetch_add(counter) == counter + 1

\* MappedWriter::new and its unwrap_unchecked (lines 219-221).  Opening
\* /dev/null may fail (descriptor limit); unwrap_unchecked on the Err is
\* undefined behaviour: a build with the unsafe-precondition checks aborts
\* the process, an optimised build carries on with a writer whose sink
\* handle is not an open file.
WorkerNew(w) ==
    /\ alive /\ wpc[w] = "new"
    /\ \/ /\ writer' = [writer EXCEPT ![w] = "ok"]
          /\ wpc' = [wpc EXCEPT ![w] = "pass"]
          /\ UNCHANGED alive
       \/ /\ writer' = [writer EXCEPT ![w] = "invalid"]
          /\ wpc' = [wpc EXCEPT ![w] = "pass"]
          /\ UNCHANGED alive
       \/ /\ writer' = [writer EXCEPT ![w] = "invalid"]
          /\ alive' = FALSE
          /\ UNCHANGED wpc
    /\ UNCHANGED << io_vectors, handed, last_write, passes, GLOBAL_METRICS >>
    /\ UNCHANGED << mainVars, monitorVars, envVars, callVars >>

\* write_mapped_data_vectored (lines 181-200) on a view of n bytes: the
\* vector is cleared and refilled with the BATCH_SIZE chunks of the view,
\* then write_vectored is called once with the whole vector.
write_pass_keep(old_vectors, n) ==
    LET v == old_vectors \o chunks(n, BATCH_SIZE)
    IN  [io_vectors |-> v, calls |-> << v >>]
write_pass_per_segment(old_vectors, n) ==
    LET v == chunks(n, BATCH_SIZE)
    IN  [io_vectors |-> v, calls |-> [i \in 1 .. Len(v) |-> << v[i] >>]]
write_mapped_data_vectored(old_vectors, n) ==
    LET v == chunks(n, BATCH_SIZE)
    IN  [io_vectors |-> v, calls |-> << v >>]

\* What the one write_vectored call can report: all bytes taken, fewer
\* taken, or an error (always an error on a handle that is not open).
write_outcomes(wr) == IF wr = "ok" THEN {"full", "short", "err"} ELSE {"err"}

\* One iteration's write pass (line 228).  The io::Result of the call goes
\* through unwrap_unchecked (line 196): an Err there is undefined
\* behaviour, which either aborts the process (checked build) or is taken
\* for an Ok (optimised build).  The pass then returns Ok(()).
WorkerWritePass(w) ==
    /\ alive /\ wpc[w] = "pass"
    /\ SumOver(passes, Workers) < MaxPasses
    /\ LET r == write_mapped_data_vectored(io_vectors[w], data_source.size)
       IN  \E out \in write_outcomes(writer[w]) :
             /\ io_vectors' = [io_vectors EXCEPT ![w] = r.io_vectors]
             /\ handed' = [handed EXCEPT ![w] = r.calls]
             /\ last_write' = [last_write EXCEPT ![w] = out]
             /\ \/ /\ passes' = [passes EXCEPT ![w] = @ + 1]
                   /\ wpc' = [wpc EXCEPT ![w] = "count"]
                   /\ UNCHANGED alive
                \/ /\ out = "err"
                   /\ alive' = FALSE
                   /\ UNCHANGED << passes, wpc >>
    /\ UNCHANGED << writer, GLOBAL_METRICS >>
    /\ UNCHANGED << mainVars, monitorVars, envVars, callVars >>

\* line 230, then back to the top of the loop
WorkerIncrement_store(w) ==
    /\ alive /\ wpc[w] = "count"
    /\ GLOBAL_METRICS' = passes[w]
    /\ wpc' = [wpc EXCEPT ![w] = "pass"]
    /\ last_write' = [last_write EXCEPT ![w] = "none"]
    /\ UNCHANGED << alive, writer, io_vectors, handed, passes >>
    /\ UNCHANGED << mainVars, monitorVars, envVars, callVars >>

WorkerIncrement(w) ==
    /\ alive /\ wpc[w] = "count"
    /\ GLOBAL_METRICS' = fetch_add(GLOBAL_METRICS)
    /\ wpc' = [wpc EXCEPT ![w] = "pass"]
    /\ last_write' = [last_write EXCEPT ![w] = "none"]
    /\ UNCHANGED << alive, writer, io_vectors, handed, passes >>
    /\ UNCHANGED << mainVars, monitorVars, envVars, callVars >>

\* ---------------------------------------------------------------- monitor
\* Instant::now() after the three-second sleep: three seconds on, or (a
\* clock that is not monotonic) a reading before the retained one.
clock_readings(earlier) == {earlier - 1, earlier + SleepSecs}

\* The status line of lines 298-299.
status_line(current_count, delta_count, elapsed, file_size) ==
    [total |-> current_count,
     delta |-> delta_count,
     writes_per_sec |-> writes_per_sec_of(delta_count, elapsed),
     gb_per_sec |-> gb_per_sec_of(delta_count, file_size, elapsed)]

\* GLOBAL_METRICS.load(Relaxed) at line 288: the value read and the value
\* the counter holds afterwards.
swap_metrics(counter) == [value |-> counter, after |-> 0]
load_metrics(counter) == [value |-> counter, after |-> counter]

\* Lines 290-304 for one wake-up: the elapsed whole seconds, the line
\* printed (<< >> when the interval is skipped) and the retained pair the
\* turn leaves behind.
monitor_turn_time_outside_if(current_count, current_time, prev_count, prev_time, file_size) ==
    LET secs == duration_since(current_time, prev_time)
        elapsed == as_secs_f64(secs)
    IN  IF elapsed_gt_zero(elapsed)
        THEN [elapsed |-> secs,
              printed |-> << status_line(current_count,
                                delta_count_of(current_count, prev_count),
                                elapsed, file_size) >>,
              last_count |-> current_count,
              last_time |-> current_time]
        ELSE [elapsed |-> secs, printed |-> << >>,
              last_count |-> prev_count, last_time |-> current_time]
monitor_turn_count_outside_if(current_count, current_time, prev_count, prev_time, file_size) ==
    LET secs == duration_since(current_time, prev_time)
        elapsed == as_secs_f64(secs)
    IN  IF elapsed_gt_zero(elapsed)
        THEN [elapsed |-> secs,
              printed |-> << status_line(current_count,
                                delta_count_of(current_count, prev_count),
                                elapsed, file_size) >>,
              last_count |-> current_count,
              last_time |-> current_time]
        ELSE [elapsed |-> secs, printed |-> << >>,
              last_count |-> current_count, last_time |-> prev_time]
monitor_turn(current_count, current_time, prev_count, prev_time, file_size) ==
    LET secs == duration_since(current_time, prev_time)
        elapsed == as_secs_f64(secs)
    IN  IF elapsed_gt_zero(elapsed)
        THEN [elapsed |-> secs,
              printed |-> << status_line(current_count,
                                delta_count_of(current_count, prev_count),
                                elapsed, file_size) >>,
              last_count |-> current_count,
              last_time |-> current_time]
        ELSE [elapsed |-> secs, printed |-> << >>,
              last_count |-> prev_count, last_time |-> prev_time]

\* One turn of the loop at lines 285-305.
MonitorSample ==
    /\ alive /\ mainPc = "monitor"
    /\ \E current_time \in clock_readings(last_time) :
          /\ current_time \in -1 .. MaxTime
          /\ LET ld == load_metrics(GLOBAL_METRICS)
                 t == monitor_turn(ld.value, current_time, last_count, last_time,
                                   Usize(data_source.size, 0))
             IN  /\ GLOBAL_METRICS' = ld.after
                 /\ wake' = [current_time |-> current_time, elapsed |-> t.elapsed]
                 /\ report' = IF t.printed # << >> THEN t.printed ELSE report
                 /\ prints' = prints + Len(t.printed)
                 /\ delta_sum' = delta_sum +
                        (IF t.printed # << >> THEN t.printed[1].delta ELSE 0)
                 /\ last_count' = t.last_count
                 /\ last_time' = t.last_time
    /\ UNCHANGED alive
    /\ UNCHANGED << mainVars, workerVars, envVars, callVars >>

Next ==
    \/ MainConfigDefault
    \/ MainMapSource
    \/ MainSpawn
    \/ MainSpawnReturn
    \/ \E w \in Workers : WorkerNew(w)
    \/ \E w \in Workers : WorkerWritePass(w)
    \/ \E w \in Workers : WorkerIncrement(w)
    \/ MonitorSample

Spec == Init /\ [][Next]_vars

\* ------------------------------------------- stand-alone: slice chunking
\* chunks(c) applied to a view of n bytes, for every small n and c > 0.
ChunkCalls == { [NoCall EXCEPT !.fn = "chunks", !.n = n, !.c = c] :
                n \in 0 .. MaxLen, c \in 1 .. MaxChunkSize }

InitChunks ==
    /\ platform = [apple |-> FALSE, l1 |-> None, l2 |-> None, p_cores |-> 0]
    /\ file = [exists |-> FALSE, len |-> 0]
    /\ InitSystem
    /\ call \in ChunkCalls
    /\ result = << >>

ApplyChunks ==
    /\ call.fn = "chunks" /\ result = << >>
    /\ result' = << chunks(call.n, call.c) >>
    /\ UNCHANGED << alive, GLOBAL_METRICS, call >>
    /\ UNCHANGED << mainVars, workerVars, monitorVars, envVars >>

SpecChunks == InitChunks /\ [][ApplyChunks]_vars

\* ----------------------------------------- stand-alone: monitor arithmetic
\* Lines 293-295 on one sample: counts, whole seconds elapsed, and a source
\* size up to 3 GiB.
SampleSizes == { Usize(1, 0), Usize(3, 20), Usize(1, 30), Usize(1, 31), Usize(3, 30) }
SampleCalls == { [NoCall EXCEPT !.fn = "sample", !.current_count = l + d,
                                !.last_count = l, !.elapsed = t, !.file_size = z] :
                 l \in {0, 7}, d \in {0, 1, 1000}, t \in 1 .. MaxElapsed,
                 z \in SampleSizes }

InitArith ==
    /\ platform = [apple |-> FALSE, l1 |-> None, l2 |-> None, p_cores |-> 0]
    /\ file = [exists |-> FALSE, len |-> 0]
    /\ InitSystem
    /\ call \in SampleCalls
    /\ result = << >>

ApplySample ==
    /\ call.fn = "sample" /\ result = << >>
    /\ LET elapsed == as_secs_f64(call.elapsed)
       IN  /\ elapsed_gt_zero(elapsed)
           /\ result' = << status_line(call.current_count,
                               delta_count_of(call.current_count, call.last_count),
                               elapsed, call.file_size) >>
    /\ UNCHANGED << alive, GLOBAL_METRICS, call >>
    /\ UNCHANGED << mainVars, workerVars, monitorVars, envVars >>

SpecArith == InitArith /\ [][ApplySample]_vars

\* ================================================================ claims
\* passes of w that have returned and been added to the counter
Counted(w) == passes[w] - (IF wpc[w] = "count" THEN 1 ELSE 0)

\* segs is the whole range [0, n): in order, gap-free, starting at 0
Covers(segs, n) ==
    /\ \A i \in 1 .. Len(segs) :
          segs[i].off = (IF i = 1 THEN 0 ELSE segs[i - 1].off + segs[i - 1].len)
    /\ (IF Len(segs) = 0 THEN 0 ELSE segs[Len(segs)].off + segs[Len(segs)].len) = n

CeilDiv(n, c) == (n + c - 1) \div c

\* C1: every step of a worker, of main or of the monitor leaves
\* GLOBAL_METRICS unchanged or raises it by exactly 1; it never decreases
\* and is never reset.
C1_CounterNeverDecreases ==
    [][GLOBAL_METRICS' = GLOBAL_METRICS \/ GLOBAL_METRICS' = GLOBAL_METRICS + 1]_vars

C1_Witness ==
    /\ Cardinality({w \in Workers : Counted(w) >= 1}) >= 2
    /\ GLOBAL_METRICS >= 2
    /\ report # << >>

\* C2: in every reachable state the counter equals the sum over the workers
\* of the passes each has completed and counted: no increment is lost when
\* workers increment concurrently, and none happens before the pass returns.
C2_CounterIsSumOfCountedPasses ==
    /\ GLOBAL_METRICS = SumOver([w \in Workers |-> Counted(w)], Workers)
    /\ \A w \in Workers : Counted(w) >= 0

C2_Witness ==
    \E w1, w2 \in Workers :
        /\ w1 # w2
        /\ wpc[w1] = "count" /\ Counted(w1) >= 1
        /\ wpc[w2] = "count"
        /\ GLOBAL_METRICS >= 1

\* C3: for every chunk size c > 0 and view length n >= 0 the chunk list has
\* ceil(n/c) segments, contiguous and in order from offset 0, whose lengths
\* sum to n; every segment but the last has length c and the last has
\* length n - c * (ceil(n/c) - 1).
C3_ChunkListShape ==
    (call.fn = "chunks" /\ result # << >>) =>
        LET segs == result[1]
            n == call.n
            c == call.c
            k == CeilDiv(n, c)
        IN  /\ Len(segs) = k
            /\ Covers(segs, n)
            /\ SumOver([i \in 1 .. k |-> segs[i].len], 1 .. k) = n
            /\ \A i \in 1 .. (k - 1) : segs[i].len = c
            /\ k > 0 => segs[k].len = n - c * (k - 1)

C3_Witness ==
    /\ call.fn = "chunks" /\ result # << >>
    /\ Len(result[1]) >= 3
    /\ call.n % call.c # 0

\* C4: each segment but the last built by a worker's write pass has length
\* config.chunk_size.
C4_SegmentsHaveConfiguredChunkSize ==
    \A w \in Workers :
        \A i \in 1 .. (Len(io_vectors[w]) - 1) :
            io_vectors[w][i].len = config.chunk_size

\* C5: a write pass makes one write_vectored call, and the slices handed to
\* that call are the whole range [0, size) of the mapped source, so every
\* pass that returned (and every pass counted) handed over size bytes.
C5_OneCallHandsWholeView ==
    \A w \in Workers :
        passes[w] >= 1 =>
            /\ Len(handed[w]) = 1
            /\ Covers(handed[w][1], data_source.size)

C5_Witness ==
    \E w \in Workers :
        /\ wpc[w] = "count"
        /\ Len(handed[w]) = 1
        /\ Len(handed[w][1]) >= 3
        /\ last_write[w] = "full"

\* C6: once Config::default() has run, detect_optimal_chunk_size has
\* returned (no panic, whatever L1 and L2 are) a chunk size equal to
\* clamp(128 KiB, L1, L2/2) that lies between L1 and L2/2.
EffectiveL1(p) == IF p.apple THEN 128 * KiB ELSE unwrap_or(p.l1, 32 * KiB)
EffectiveL2(p) == IF p.apple THEN 12 * KiB * KiB ELSE unwrap_or(p.l2, 512 * KiB)
C6_DetectChunkSizeAlwaysReturns ==
    mainPc # "config" =>
        /\ mainPc # "panic_clamp"
        /\ EffectiveL1(platform) <= config.chunk_size
        /\ config.chunk_size <= EffectiveL2(platform) \div 2
        /\ config.chunk_size = detect_optimal_chunk_size(platform)

\* C7: while the source is not mapped no worker exists and the counter is
\* zero, and main never gets past a failed from_file: it aborts instead.
C7_NoWorkerWithoutMapping ==
    /\ ~data_source.mapped =>
          /\ spawned = 0
          /\ \A w \in Workers : wpc[w] = "unspawned"
          /\ GLOBAL_METRICS = 0
          /\ mainPc \in {"config", "map", "panic_clamp", "panic_expect"}
    /\ mainPc = "panic_expect" => ~alive /\ ~data_source.mapped

C7_Witness ==
    /\ mainPc = "panic_expect"
    /\ ~file.exists
    /\ config.thread_count >= 1

\* C8: with thread_count = 0 the monitor runs on a live process with no
\* worker, the counter at 0, every delta 0 and every reported rate a finite
\* zero (no division by zero), and its next sample can always be taken.
C8_ZeroThreadsIsValid ==
    (config.thread_count = 0 /\ mainPc = "monitor") =>
        /\ alive
        /\ last_time + SleepSecs <= MaxTime => ENABLED MonitorSample
        /\ spawned = 0
        /\ \A w \in Workers : wpc[w] = "unspawned"
        /\ GLOBAL_METRICS = 0
        /\ \A i \in 1 .. Len(report) :
              /\ report[i].total = 0
              /\ report[i].delta = 0
              /\ report[i].writes_per_sec = F64Zero
              /\ report[i].gb_per_sec = F64Zero

C8_Witness ==
    /\ config.thread_count = 0 /\ mainPc = "monitor"
    /\ report # << >>
    /\ last_time >= 2 * SleepSecs

\* C9: spawn_writers spawns config.thread_count workers, once: never more
\* than thread_count, exactly thread_count when it returns, and none after;
\* no step changes the private state (position, writer, slice vector) of
\* two workers.
Private(w) == << wpc[w], writer[w], io_vectors[w], handed[w], last_write[w], passes[w] >>
C9_SpawnsExactlyThreadCount ==
    /\ [](/\ Cardinality({w \in Workers : wpc[w] # "unspawned"}) = spawned
          /\ spawned <= config.thread_count
          /\ mainPc = "monitor" => spawned = config.thread_count)
    /\ [][mainPc = "monitor" =>
            /\ spawned' = spawned
            /\ \A w \in Workers : wpc[w] = "unspawned" => wpc'[w] = "unspawned"]_vars
    /\ [][\A w1, w2 \in Workers :
            (Private(w1)' # Private(w1) /\ Private(w2)' # Private(w2)) => w1 = w2]_vars

C9_Witness ==
    /\ mainPc = "monitor"
    /\ config.thread_count = 2
    /\ spawned = 2
    /\ report # << >>

\* C10: for every sample with elapsed > 0, delta = current - previous,
\* writes_per_sec * elapsed = delta and gb_per_sec * elapsed * 2^30 =
\* delta * source_size; delta = 1000, elapsed = 2, source_size = 2 * 1024^3
\* gives writes_per_sec = 500 and gb_per_sec = 1000.
C10_MonitorArithmetic ==
    (call.fn = "sample" /\ result # << >>) =>
        LET line == result[1]
            delta == call.current_count - call.last_count
            elapsed == AsF64(call.elapsed)
            size == UsizeAsF64(call.file_size)
        IN  /\ line.total = call.current_count
            /\ line.delta = delta
            /\ F64Mul(line.writes_per_sec, elapsed) = AsF64(delta)
            /\ F64Mul(F64Mul(line.gb_per_sec, elapsed), F64Norm(1, 1, 30))
                   = F64Mul(AsF64(delta), size)
            /\ (delta = 1000 /\ call.elapsed = 2 /\ size = F64Norm(1, 1, 31)) =>
                   /\ line.writes_per_sec = AsF64(500)
                   /\ line.gb_per_sec = AsF64(1000)

C10_Witness ==
    /\ call.fn = "sample" /\ result # << >>
    /\ call.current_count - call.last_count = 1000
    /\ call.elapsed = 2
    /\ call.file_size = Usize(1, 31)
    /\ result[1].gb_per_sec = AsF64(1000)

\* C11: a monitor wake-up whose elapsed time is not positive prints nothing
\* and leaves the retained count and time as they were (so no rate is ever
\* computed by a division by zero); a wake-up with elapsed > 0 prints one
\* line and replaces the retained pair by the count just read and the
\* current time.
C11_SkippedIntervalChangesNothing ==
    /\ [](\A i \in 1 .. Len(report) :
             F64Finite(report[i].writes_per_sec) /\ F64Finite(report[i].gb_per_sec))
    /\ [][(mainPc = "monitor" /\ wake' # wake) =>
            IF wake'.elapsed <= 0
            THEN /\ prints' = prints
                 /\ report' = report
                 /\ last_count' = last_count
                 /\ last_time' = last_time
            ELSE /\ prints' = prints + 1
                 /\ report'[1].total = GLOBAL_METRICS
                 /\ last_count' = GLOBAL_METRICS
                 /\ last_time' = wake'.current_time]_vars

C11_Witness ==
    /\ mainPc = "monitor"
    /\ wake.elapsed = 0
    /\ wake.current_time < last_time
    /\ prints >= 1
    /\ GLOBAL_METRICS > last_count

\* C12: a worker whose MappedWriter::new failed (sink not opened) has
\* terminated on its own: it is not in its loop, it has made no write pass
\* and counted nothing, and the process is still running.
C12_FailedConstructionEndsOnlyThatWorker ==
    \A w \in Workers :
        writer[w] = "invalid" =>
            /\ alive
            /\ wpc[w] \notin {"pass", "count"}
            /\ passes[w] = 0
            /\ handed[w] = << >>

\* C13: a worker is in its loop (Running) only with a constructed writer,
\* and a worker that has entered the loop stays in it for as long as the
\* process runs.
Running(w) == wpc[w] \in {"pass", "count"}
C13_RunningOnlyWithConstructedWriter ==
    \A w \in Workers :
        /\ Running(w) => writer[w] = "ok"
        /\ passes[w] >= 1 => Running(w)

\* C14: the strong count is the number of owners alive (main's Arc, the
\* clone spawn_writers holds until it returns, one per spawned thread);
\* while a worker exists or the monitor runs it is >= 1 and the mapping has
\* not been unmapped; and once the source is mapped no step changes its
\* address or size or unmaps it.
C14_MappingOutlivesItsUsers ==
    /\ [](/\ strong = (IF mainPc \in {"spawn", "monitor"} THEN 1 ELSE 0)
                       + (IF mainPc = "spawn" THEN 1 ELSE 0) + spawned
          /\ ((\E w \in Workers : wpc[w] # "unspawned") \/ mainPc = "monitor") =>
                 /\ strong >= 1
                 /\ data_source.mapped
                 /\ data_source.data # None)
    /\ [][data_source.mapped => data_source' = data_source]_vars

C14_Witness ==
    /\ mainPc = "monitor"
    /\ strong = 3
    /\ data_source.mapped
    /\ \A w \in Workers : Running(w)
    /\ \E w \in Workers : passes[w] >= 2

\* C15: after every write pass of a worker, the first or a later one, its
\* slice vector is the vector a first pass over the view builds:
\* ceil(size / BATCH_SIZE) segments covering [0, size) once, nothing kept
\* from earlier passes.
C15_SegmentListRebuiltEveryPass ==
    \A w \in Workers :
        passes[w] >= 1 =>
            /\ io_vectors[w] = write_mapped_data_vectored(<< >>, data_source.size).io_vectors
            /\ Len(io_vectors[w]) = CeilDiv(data_source.size, BATCH_SIZE)
            /\ Covers(io_vectors[w], data_source.size)

C15_Witness ==
    \E w \in Workers :
        /\ passes[w] >= 3
        /\ wpc[w] = "count"
        /\ Len(io_vectors[w]) >= 3

\* C16: once the write_vectored call of a pass has returned, whatever it
\* returned (all bytes, fewer bytes, an error), it was the only call of the
\* pass, the pass has returned Ok and the worker goes on to its increment.
C16_WriteOutcomeNeverStopsTheIncrement ==
    \A w \in Workers :
        last_write[w] # "none" =>
            /\ Len(handed[w]) = 1
            /\ alive
            /\ wpc[w] = "count"

\* C17: a mapped source of n > 0 bytes has been pre-faulted by ceil(n/p)
\* reads, p the page size, at the offsets 0, p, 2p, ... the last of which is
\* below n; before the mapping exists nothing has been read; and a worker
\* exists only when the source is mapped, that is after the last of these
\* reads.
C17_PrefaultCompleteBeforeWorkers ==
    LET n == data_source.size
        p == page_size_of(platform)
    IN  /\ data_source.mapped =>
              /\ n > 0
              /\ prefault.reads = CeilDiv(n, p)
              /\ prefault.last = (prefault.reads - 1) * p
              /\ prefault.last < n
        /\ ~data_source.mapped => prefault = [reads |-> 0, last |-> None]
        /\ (spawned > 0 \/ \E w \in Workers : wpc[w] # "unspawned") =>
              /\ data_source.mapped
              /\ prefault.reads >= 1

C17_Witness ==
    /\ spawned >= 1
    /\ wpc[0] = "new"
    /\ data_source.size % page_size_of(platform) # 0
    /\ prefault.reads > 2 * MaxChunks
    /\ prefault.last = data_source.size - 1

\* C18: the retained previous count never exceeds the counter, so the
\* subtraction current_count - last_count of line 293 never goes below zero
\* (which in u64 would wrap or panic): every printed delta is >= 0, no
\* printed total exceeds the counter, and from one printed line to the next
\* the total does not decrease.
C18_RetainedCountNeverAheadOfCounter ==
    /\ [](/\ 0 <= last_count
          /\ last_count <= GLOBAL_METRICS
          /\ \A i \in 1 .. Len(report) :
                /\ report[i].delta >= 0
                /\ report[i].total <= GLOBAL_METRICS)
    /\ [][(report # << >> /\ report' # << >>) =>
              report'[1].total >= report[1].total]_vars

C18_Witness ==
    /\ prints >= 2
    /\ report[1].delta >= 1
    /\ report[1].total > report[1].delta
    /\ last_count < GLOBAL_METRICS

\* C19: after any sequence of monitor wake-ups, skipped ones included, the
\* deltas of all the lines printed add up to the retained previous count,
\* and that count is the total of the last line printed, the counter value
\* read at the last wake-up that was not skipped (0 before any).
C19_DeltasSumToRetainedCount ==
    /\ delta_sum = last_count
    /\ report # << >> => (prints >= 1 /\ last_count = report[1].total)
    /\ report = << >> => (prints = 0 /\ last_count = 0)

C19_Witness ==
    /\ prints >= 2
    /\ wake.elapsed = 0
    /\ delta_sum >= 2
    /\ report[1].delta < delta_sum
    /\ GLOBAL_METRICS > last_count

\* C20: a step of worker w (one that changes w's private state after w was
\* spawned) leaves the file, the mapped source (address, size, mapping),
\* the Config, every other worker's slice vector and the monitor's retained
\* count and time as they were; and a step of the monitor leaves
\* GLOBAL_METRICS as it was.
C20_WorkerAndMonitorFrames ==
    /\ [][\A w \in Workers :
            (wpc[w] # "unspawned" /\ Private(w)' # Private(w)) =>
                /\ file' = file
                /\ data_source' = data_source
                /\ config' = config
                /\ \A v \in Workers \ {w} : io_vectors'[v] = io_vectors[v]
                /\ last_count' = last_count
                /\ last_time' = last_time]_vars
    /\ [][(mainPc = "monitor" /\ monitorVars' # monitorVars) =>
              GLOBAL_METRICS' = GLOBAL_METRICS]_vars

C20_Witness ==
    /\ mainPc = "monitor"
    /\ wake.elapsed > 0
    /\ last_count >= 1
    /\ \A w \in Workers : passes[w] >= 1 /\ io_vectors[w] # << >>
    /\ wpc[0] = "pass" /\ wpc[1] = "count"

====
